---- MODULE Spec2Model ----
(***************************************************************************)
(* A model of the FAQ chatbot: the embedding provider with its chunked     *)
(* embed_documents, the in-memory vector store and its retriever, the      *)
(* answer generator (QAChain.generate_response), the capped chat history   *)
(* of the chat interface, the response evaluator, the FAQ data loader and  *)
(* the start-up sequence of main().                                        *)
(*                                                                         *)
(* Texts are strings.  An embedding is a list of floats, written here by   *)
(* its length and what its floats are: [len |-> d, of |-> t] is the list   *)
(* of d floats a service computes for the text t, and                      *)
(* [len |-> d, of |-> "0.0"] is [0.0] * d.                                 *)
(***************************************************************************)
EXTENDS Integers, Sequences, FiniteSets, TLC

VARIABLES
    \* ---- VectorStore / CustomLocalEmbeddings -----------------------------
    env,            \* which of EMBEDDING_BASE_URL / EMBEDDING_API_KEY are set
    embeddings,     \* self.embeddings: the provider class selected
    serverDim,      \* dimensionality of the vectors the embedding service returns
    documents,      \* the argument of VectorStore.initialize
    vectorstore,    \* self.vectorstore: None or the InMemoryVectorStore
    pc,             \* position inside VectorStore.initialize
    probe,          \* outcome of the probe embed_query call (None before it)
    i,              \* loop variable of embed_documents
    all_embeddings, \* accumulator of embed_documents
    requests,       \* batches POSTed by embed_documents so far (in order)
    outcomes,       \* what happened to each of those requests
    initResult,     \* what initialize returned (None until it has)
    storeCalls,     \* calls initialize made on its collaborators, in order
    retriever,      \* result of the last get_retriever ("unset" before)
    queryResult,    \* result of the last retriever query
    \* ---- QAChain.generate_response ---------------------------------------
    qpc,            \* position inside generate_response
    query,          \* its argument
    retrieved_docs, \* local: what _debug_retrieve_documents returned
    retrieved_context, \* local: the context formatted for the evaluator
    answer,         \* local: the extracted answer
    response,       \* local: what chain.invoke returned
    result,         \* what generate_response returned or raised (None before)
    qaCalls,        \* calls the current generate_response made on its collaborators
    previous,       \* how the generate_response before the current one ended
    \* ---- ChatInterface ----------------------------------------------------
    messages,       \* st.session_state.messages
    appended,       \* every message ever passed to add_message, in order
    cpc,            \* position inside process_user_input
    faults,         \* calls in which the generator raised or gave no answer
    chatOutcome,    \* how the last process_user_input ended (None before)
    \* ---- ResponseEvaluator ------------------------------------------------
    eval_env,       \* USE_MODEL_EVALUATOR, and how ChatOpenAI(...) ended in __init__
    use_model,      \* self.use_model
    eval_args,      \* (query, response, context) of the current evaluate_response
    eval_response,  \* how self.eval_llm.invoke ended (None before)
    evaluation,     \* what evaluate_response returned (None before)
    epc,            \* position inside evaluate_response
    eval_log,       \* how each evaluate_response call so far was answered
    \* ---- main() ------------------------------------------------------------
    mpc,            \* position inside the current run of main()
    csv_file,       \* the file at FAQ_FILE
    faq,            \* what load_faq_data returned ("unset" before)
    custom_init,    \* how CustomLocalEmbeddings(...) ended in VectorStore.__init__
    cache,          \* st.cache_resource entry of initialize_vector_store
    vector_store,   \* local of main(): what initialize_vector_store returned
    st_errors,      \* messages shown with st.error
    run_base,       \* len(appended) when the current run started
    runs            \* runs of main() started so far

storeVars == <<env, embeddings, serverDim, documents, vectorstore, pc,
               probe, i, all_embeddings, requests, outcomes,
               initResult, storeCalls, retriever, queryResult>>

qaVars == <<qpc, query, retrieved_docs, retrieved_context, answer, response,
            result, qaCalls, previous>>

chatVars == <<messages, appended, cpc, faults, chatOutcome>>

evalVars == <<eval_env, use_model, eval_args, eval_response, evaluation, epc,
              eval_log>>

mainVars == <<mpc, csv_file, faq, custom_init, cache, vector_store, st_errors, run_base, runs>>

vars == <<storeVars, qaVars, chatVars, evalVars, mainVars>>

(***************************************************************************)
(* Bounds of the model                                                     *)
(***************************************************************************)
MaxDocs == 7
MaxAppended == 22
MaxFaults == 2
MaxRuns == 3
MaxEvalCalls == 2

(***************************************************************************)
(* Program constants                                                       *)
(***************************************************************************)
TOP_K == 6
batch_size == 3
DefaultDimensions == 384
FetchMultiplier == 10
MAX_HISTORY_LENGTH == 20

None == [type |-> "NoneType"]

Min(a, b) == IF a < b THEN a ELSE b

\* The dimensionalities an embedding service may have (bge-small, bge-base).
ServerDims == {384, 768}

\* self.dimensions of the provider VectorStore builds: never passed, so None.
dimensions == None

\* The text of FAQ document n, as create_documents_from_faqs formats it.
Doc(n) == "Q: q" \o ToString(n) \o "\nA: a" \o ToString(n)

Vec(t, d) == [len |-> d, of |-> t]

(***************************************************************************)
(* CustomLocalEmbeddings                                                   *)
(***************************************************************************)
\* What the HTTP exchange for `texts` can be: no resp at all, an error
\* status, or a 200 whose JSON body is the contracted one, one entry short,
\* or without the "data" key.
HttpExchanges(texts, d) ==
    { [kind |-> "transport_error"],
      [kind |-> "http_error"],
      [kind |-> "ok",
       json |-> [data |-> [j \in 1..Len(texts) |-> [embedding |-> Vec(texts[j], d)]]]],
      [kind |-> "ok",
       json |-> [data |-> [j \in 1..(Len(texts) - 1) |-> [embedding |-> Vec(texts[j], d)]]]],
      [kind |-> "ok", json |-> [error |-> "bad request"]] }

Raise(exc) == [raised |-> TRUE, exc |-> exc]
Return(v) == [raised |-> FALSE, value |-> v]

\* requests.post raising leaves `response` unbound, so the handler's own
\* `if response is not None` raises UnboundLocalError; an error status is
\* turned into ValueError.
_make_embedding_request(h) ==
    CASE h.kind = "ok" -> Return(h.json)
      [] h.kind = "http_error" -> Raise("ValueError")
      [] h.kind = "transport_error" -> Raise("UnboundLocalError")

\* [item["embedding"] for item in response["data"]]
ExtractEmbeddings(resp) ==
    IF "data" \notin DOMAIN resp
    THEN Raise("KeyError")
    ELSE IF \E j \in 1..Len(resp.data) : "embedding" \notin DOMAIN resp.data[j]
         THEN Raise("KeyError")
         ELSE Return([j \in 1..Len(resp.data) |-> resp.data[j].embedding])

\* [0.0] * (self.dimensions or 384)
ZeroVector ==
    [len |-> IF dimensions # None THEN dimensions ELSE DefaultDimensions, of |-> "0.0"]

\* The body of one iteration of embed_documents' loop: what is appended to
\* all_embeddings for `batch` when the exchange is h.
BatchEmbeddings(batch, h) ==
    LET resp == _make_embedding_request(h)
        extracted == IF resp.raised THEN resp ELSE ExtractEmbeddings(resp.value)
    IN  IF extracted.raised
        THEN [j \in 1..Len(batch) |-> ZeroVector]
        ELSE extracted.value

\* How the iteration ended, for the record of outcomes.
BatchOutcome(batch, h) ==
    LET resp == _make_embedding_request(h)
    IN  IF resp.raised THEN "request_failed"
        ELSE IF ExtractEmbeddings(resp.value).raised THEN "malformed"
        ELSE IF Len(ExtractEmbeddings(resp.value).value) # Len(batch) THEN "short"
        ELSE "ok"

\* texts[i:i+batch_size], i counted from 0 as in the source
Slice(texts, from) ==
    [j \in 1..(Min(from + batch_size, Len(texts)) - from) |-> texts[from + j]]

embed_query(h) ==
    LET resp == _make_embedding_request(h)
    IN  IF resp.raised THEN resp
        ELSE IF "data" \notin DOMAIN resp.value THEN Raise("KeyError")
        ELSE IF Len(resp.value.data) = 0 THEN Raise("IndexError")
        ELSE Return(resp.value.data[1].embedding)

(***************************************************************************)
(* VectorStore                                                             *)
(***************************************************************************)
\* VectorStore.__init__: the provider is the custom one iff both settings are set.
SelectEmbeddings(e) ==
    IF e.base_url /\ e.api_key THEN "CustomLocalEmbeddings" ELSE "OpenAIEmbeddings"

EmptyStore == [store |-> <<>>]

StoreInit ==
    /\ env \in [base_url : BOOLEAN, api_key : BOOLEAN]
    /\ embeddings = SelectEmbeddings(env)
    /\ serverDim \in ServerDims
    /\ \E n \in 0..MaxDocs : documents = [k \in 1..n |-> Doc(k)]
    /\ vectorstore = None
    /\ pc = "constructed"
    /\ probe = None
    /\ i = 0
    /\ all_embeddings = <<>>
    /\ requests = <<>>
    /\ outcomes = <<>>
    /\ initResult = None
    /\ storeCalls = <<>>
    /\ retriever = [type |-> "unset"]
    /\ queryResult = [type |-> "unset"]

\* embed_query of whichever provider was selected: the custom one goes
\* through the HTTP exchange, the managed one returns a vector or raises.
EmbedQueryOutcomes(text) ==
    IF embeddings = "CustomLocalEmbeddings"
    THEN { embed_query(h) : h \in HttpExchanges(<<text>>, serverDim) }
    ELSE { Return(Vec(text, serverDim)), Raise("OpenAIError") }

\* initialize with the probe's failure logged and not returned on.
initialize_probe_failure_ignored ==
    /\ pc = "constructed"
    /\ \E r \in EmbedQueryOutcomes("Test embedding") :
         /\ probe' = r
         /\ storeCalls' = Append(storeCalls, "embed_query")
    /\ vectorstore' = EmptyStore
    /\ pc' = "add_texts"
    /\ UNCHANGED <<env, embeddings, serverDim, documents, i, all_embeddings,
                   requests, outcomes, initResult, retriever, queryResult>>
    /\ UNCHANGED <<qaVars, chatVars, evalVars, mainVars>>

\* initialize, up to the call of add_texts: the probe, and on its failure
\* `return False`; otherwise the empty InMemoryVectorStore is assigned.
initialize_probe ==
    /\ pc = "constructed"
    /\ \E r \in EmbedQueryOutcomes("Test embedding") :
         /\ probe' = r
         /\ storeCalls' = Append(storeCalls, "embed_query")
         /\ IF r.raised
            THEN /\ initResult' = Return(FALSE)
                 /\ pc' = "returned"
                 /\ UNCHANGED vectorstore
            ELSE /\ vectorstore' = EmptyStore
                 /\ pc' = "add_texts"
                 /\ UNCHANGED initResult
    /\ UNCHANGED <<env, embeddings, serverDim, documents, i, all_embeddings,
                   requests, outcomes, retriever, queryResult>>
    /\ UNCHANGED <<qaVars, chatVars, evalVars, mainVars>>

\* add_texts calls embed_documents(texts) once.
add_texts_begin ==
    /\ pc = "add_texts"
    /\ pc' = "embed_documents"
    /\ storeCalls' = Append(storeCalls, "embed_documents")
    /\ i' = 0
    /\ all_embeddings' = <<>>
    /\ UNCHANGED <<env, embeddings, serverDim, documents, vectorstore, probe,
                   requests, outcomes, initResult, retriever, queryResult>>
    /\ UNCHANGED <<qaVars, chatVars, evalVars, mainVars>>

\* embed_documents leaving its loop at the first request that fails.
embed_documents_batch_stop_on_failure ==
    /\ pc = "embed_documents"
    /\ embeddings = "CustomLocalEmbeddings"
    /\ i < Len(documents)
    /\ LET batch == Slice(documents, i)
       IN  \E h \in HttpExchanges(batch, serverDim) :
             /\ all_embeddings' = all_embeddings \o BatchEmbeddings(batch, h)
             /\ requests' = Append(requests, batch)
             /\ outcomes' = Append(outcomes, BatchOutcome(batch, h))
             /\ i' = IF BatchOutcome(batch, h) = "request_failed"
                     THEN Len(documents)
                     ELSE i + batch_size
    /\ UNCHANGED <<env, embeddings, serverDim, documents, vectorstore, pc,
                   probe, initResult, storeCalls, retriever, queryResult>>
    /\ UNCHANGED <<qaVars, chatVars, evalVars, mainVars>>

\* One iteration of the loop of CustomLocalEmbeddings.embed_documents.
embed_documents_batch ==
    /\ pc = "embed_documents"
    /\ embeddings = "CustomLocalEmbeddings"
    /\ i < Len(documents)
    /\ LET batch == Slice(documents, i)
       IN  \E h \in HttpExchanges(batch, serverDim) :
             /\ all_embeddings' = all_embeddings \o BatchEmbeddings(batch, h)
             /\ requests' = Append(requests, batch)
             /\ outcomes' = Append(outcomes, BatchOutcome(batch, h))
    /\ i' = i + batch_size
    /\ UNCHANGED <<env, embeddings, serverDim, documents, vectorstore, pc,
                   probe, initResult, storeCalls, retriever, queryResult>>
    /\ UNCHANGED <<qaVars, chatVars, evalVars, mainVars>>

\* InMemoryVectorStore.add_texts pairs the texts with the vectors it got
\* (zip: the shorter of the two decides) and stores the pairs.
Stored(texts, vectors) ==
    [store |-> [j \in 1..Min(Len(texts), Len(vectors)) |->
                   [text |-> texts[j], vector |-> vectors[j]]]]

\* embed_documents returns all_embeddings; add_texts stores; `return True`.
add_texts_store ==
    /\ pc = "embed_documents"
    /\ embeddings = "CustomLocalEmbeddings"
    /\ i >= Len(documents)
    /\ vectorstore' = Stored(documents, all_embeddings)
    /\ initResult' = Return(TRUE)
    /\ pc' = "returned"
    /\ UNCHANGED <<env, embeddings, serverDim, documents, probe, i,
                   all_embeddings, requests, outcomes, storeCalls, retriever,
                   queryResult>>
    /\ UNCHANGED <<qaVars, chatVars, evalVars, mainVars>>

\* The managed provider's embed_documents: every vector, or an exception,
\* which initialize's outer handler turns into `return False`.
openai_add_texts ==
    /\ pc = "embed_documents"
    /\ embeddings = "OpenAIEmbeddings"
    /\ \E ok \in BOOLEAN :
         IF ok
         THEN /\ all_embeddings' = [j \in 1..Len(documents) |-> Vec(documents[j], serverDim)]
              /\ vectorstore' = Stored(documents, all_embeddings')
              /\ initResult' = Return(TRUE)
         ELSE /\ initResult' = Return(FALSE)
              /\ UNCHANGED <<vectorstore, all_embeddings>>
    /\ pc' = "returned"
    /\ UNCHANGED <<env, embeddings, serverDim, documents, probe, i, requests,
                   outcomes, storeCalls, retriever, queryResult>>
    /\ UNCHANGED <<qaVars, chatVars, evalVars, mainVars>>

\* get_retriever with the multiplier applied to k as well as to fetch_k.
RetrieverOf_k_multiplied(vs) ==
    IF vs # None
    THEN [type |-> "mmr", k |-> TOP_K * FetchMultiplier, fetch_k |-> TOP_K * FetchMultiplier]
    ELSE None

\* get_retriever: an MMR retriever over the store, or None without a store.
RetrieverOf(vs) ==
    IF vs # None
    THEN [type |-> "mmr", k |-> TOP_K, fetch_k |-> TOP_K * FetchMultiplier]
    ELSE None

get_retriever ==
    /\ pc \in {"constructed", "returned"}
    /\ retriever' = RetrieverOf(vectorstore)
    /\ UNCHANGED <<env, embeddings, serverDim, documents, vectorstore, pc,
                   probe, i, all_embeddings, requests, outcomes, initResult,
                   storeCalls, queryResult>>
    /\ UNCHANGED <<qaVars, chatVars, evalVars, mainVars>>

\* The results an MMR search with (k, fetch_k) can give over `store` for a
\* query vector qv: numpy rejects vectors of differing lengths; otherwise
\* min(k, fetch_k, n) distinct stored texts are selected.  Which ones, the
\* float values decide: any selection is possible, listed in store order.
MMRResults(store, qv, k, fetch_k) ==
    IF \E j \in 1..Len(store) : store[j].vector.len # qv.len
    THEN { Raise("ValueError") }
    ELSE LET n == Len(store)
             m == Min(k, Min(fetch_k, n))
             Pick(S) == [j \in 1..m |->
                            CHOOSE x \in S : Cardinality({y \in S : y < x}) = j - 1]
         IN  { Return([j \in 1..m |-> store[Pick(S)[j]].text]) :
                   S \in { T \in SUBSET (1..n) : Cardinality(T) = m } }

\* retriever.get_relevant_documents(query): embeds the query, then searches.
RetrieverResults(text) ==
    UNION { IF q.raised THEN {q}
            ELSE MMRResults(vectorstore.store, q.value, retriever.k, retriever.fetch_k) :
            q \in EmbedQueryOutcomes(text) }

similarity_query ==
    /\ pc = "returned"
    /\ retriever # None
    /\ retriever.type = "mmr"
    /\ \E r \in RetrieverResults("Apa itu Nawatech?") : queryResult' = r
    /\ UNCHANGED <<env, embeddings, serverDim, documents, vectorstore, pc,
                   probe, i, all_embeddings, requests, outcomes, initResult,
                   storeCalls, retriever>>
    /\ UNCHANGED <<qaVars, chatVars, evalVars, mainVars>>

StoreNext ==
    \/ initialize_probe
    \/ add_texts_begin
    \/ embed_documents_batch
    \/ add_texts_store
    \/ openai_add_texts
    \/ get_retriever
    \/ similarity_query

(***************************************************************************)
(* QAChain                                                                 *)
(***************************************************************************)
\* Python values a caller can pass as `query`; ints and lists by their literal.
PyStr(v) == [type |-> "str", value |-> v]
PyInt(v) == [type |-> "int", value |-> v]
PyList(v) == [type |-> "list", value |-> v]

QueryInputs ==
    { PyStr(""), None, PyInt("0"), PyInt("5"), PyList("[]"), PyList("['a']"),
      PyStr("Apa itu Nawatech?"), PyStr("Siapa CEO Nawatech?") }

\* bool(query)
Truthy(q) ==
    CASE q.type = "NoneType" -> FALSE
      [] q.type = "str" -> q.value # ""
      [] q.type = "int" -> q.value # "0"
      [] q.type = "list" -> q.value # "[]"

\* isinstance(query, str)
isinstance_str(q) == q.type = "str"

\* The validation without its isinstance test.
InvalidQuery_no_isinstance(q) == ~Truthy(q)

\* `not query or not isinstance(query, str)`
InvalidQuery(q) == ~Truthy(q) \/ ~isinstance_str(q)

InvalidResult == [answer |-> "Invalid query input."]

RECURSIVE Join(_, _)
Join(parts, sep) ==
    IF Len(parts) = 0 THEN ""
    ELSE IF Len(parts) = 1 THEN parts[1]
    ELSE parts[1] \o sep \o Join(Tail(parts), sep)

_format_docs_for_evaluation(docs) ==
    IF Len(docs) = 0 THEN ""
    ELSE Join([j \in 1..Len(docs) |->
                  "Document " \o ToString(j) \o ":\n" \o docs[j] \o "\n"], "\n")

\* The dict the handler of generate_response returns for an exception whose
\* str() is m.  Scores are floats; 0.0 is written 0.
ErrorResult(m) ==
    [answer |-> "I apologize, but I encountered an error: " \o m,
     error |-> m,
     traceback |-> "Traceback (most recent call last): " \o m,
     evaluation |-> [scores |-> [overall |-> 0],
                     reasons |-> [error |-> <<m>>],
                     method |-> "error"]]

\* A handler that logs and re-raises.
Handle_reraise(m) == Raise(m)

\* `except Exception as e`: the exception becomes a returned error result.
Handle(m) == Return(ErrorResult(m))

\* The dict generate_response assembles: answer, evaluation and every other
\* key of the chain's response.
Assemble(a, ev, resp) ==
    [k \in {"answer", "evaluation"} \cup DOMAIN resp |->
        IF k = "answer" THEN a ELSE IF k = "evaluation" THEN ev ELSE resp[k]]

Call(name, raised) == [call |-> name, raised |-> raised]

Answers ==
    { "Perusahaan teknologi",
      "I'm sorry, I don't have that information right now. Please contact Nawatech support for further assistance." }

\* The chain with a retry: a failed model call is followed by a second one.
ChainOutcomes_retry(q) ==
    LET all == RetrieverResults(q)
    IN  UNION { IF r.raised
                THEN { [calls |-> <<Call("chain.retriever", TRUE)>>, out |-> r] }
                ELSE { [calls |-> <<Call("chain.retriever", FALSE), Call("llm", TRUE),
                                    Call("llm", FALSE)>>,
                        out |-> Return([input |-> q, context |-> r.value, answer |-> a])] :
                       a \in Answers }
                     \cup
                     { [calls |-> <<Call("chain.retriever", FALSE), Call("llm", FALSE)>>,
                        out |-> Return([input |-> q, context |-> r.value, answer |-> a])] :
                       a \in Answers } :
                r \in all }

\* What the retrieval chain built by _create_chain can do on invoke: it runs
\* the retriever on the input itself (the search is a function of the index
\* and the query, so it repeats the earlier result unless a request fails),
\* then calls the model once.  The response carries input, context and
\* answer; a response without an answer is what response.get's default is for.
ChainOutcomes(q) ==
    LET all == RetrieverResults(q)
        searches == IF qaCalls[1].raised
                    THEN all
                    ELSE {Return(retrieved_docs)} \cup {r \in all : r.raised}
    IN  UNION { IF r.raised
                THEN { [calls |-> <<Call("chain.retriever", TRUE)>>, out |-> r] }
                ELSE { [calls |-> <<Call("chain.retriever", FALSE), Call("llm", TRUE)>>,
                        out |-> Raise("Connection error.")] }
                     \cup
                     { [calls |-> <<Call("chain.retriever", FALSE), Call("llm", FALSE)>>,
                        out |-> Return([input |-> q, context |-> r.value, answer |-> a])] :
                       a \in Answers }
                     \cup
                     { [calls |-> <<Call("chain.retriever", FALSE), Call("llm", FALSE)>>,
                        out |-> Return([input |-> q, context |-> r.value])] } :
                r \in searches }

\* evaluate_response(query, response, context): an evaluation by one of the
\* two strategies, written by what it evaluates, or an exception.
EvaluateOutcomes(q, a, ctx) ==
    { Return([method |-> m, query |-> q, response |-> a, context |-> ctx]) :
          m \in {"heuristic", "model"} }
    \cup { Raise("evaluation failed") }

\* generate_response: the validation, and the short-circuit for invalid input.
generate_response_validate ==
    /\ qpc \in {"idle", "returned"}
    /\ \E q \in QueryInputs :
         /\ query' = q
         /\ IF InvalidQuery(q)
            THEN /\ result' = Return(InvalidResult)
                 /\ qpc' = "returned"
            ELSE /\ result' = None
                 /\ qpc' = "retrieve"
    /\ qaCalls' = <<>>
    /\ retrieved_docs' = <<>>
    /\ retrieved_context' = ""
    /\ answer' = ""
    /\ response' = None
    /\ previous' = IF qpc = "idle" THEN "none"
                   ELSE IF InvalidQuery(query) THEN "invalid"
                   ELSE IF "error" \in DOMAIN result.value THEN "error"
                   ELSE "success"
    /\ UNCHANGED <<evalVars, mainVars, storeVars, chatVars>>

\* _debug_retrieve_documents (an exception of the retriever becomes []),
\* then _format_docs_for_evaluation; _construct_debug_prompt only logs.
_debug_retrieve_documents ==
    /\ qpc = "retrieve"
    /\ \E r \in RetrieverResults(query.value) :
         /\ retrieved_docs' = IF r.raised THEN <<>> ELSE r.value
         /\ qaCalls' = Append(qaCalls, Call("retriever", r.raised))
    /\ retrieved_context' = _format_docs_for_evaluation(retrieved_docs')
    /\ qpc' = "generate"
    /\ UNCHANGED <<evalVars, mainVars, storeVars, chatVars, query, answer, response, result,
                   previous>>

\* self.chain.invoke(...) whose exception handler discards the retriever.
chain_invoke_drops_retriever ==
    /\ qpc = "generate"
    /\ \E o \in ChainOutcomes(query.value) :
         /\ qaCalls' = qaCalls \o o.calls
         /\ IF o.out.raised
            THEN /\ result' = Handle(o.out.exc)
                 /\ qpc' = "returned"
                 /\ retriever' = None
                 /\ UNCHANGED <<response, answer>>
            ELSE /\ response' = o.out.value
                 /\ answer' = IF "answer" \in DOMAIN o.out.value
                              THEN o.out.value.answer
                              ELSE "No answer generated"
                 /\ qpc' = "evaluate"
                 /\ UNCHANGED <<result, retriever>>
    /\ UNCHANGED <<env, embeddings, serverDim, documents, vectorstore, pc, probe,
                   i, all_embeddings, requests, outcomes, initResult, storeCalls,
                   queryResult>>
    /\ UNCHANGED <<evalVars, mainVars, chatVars, query, retrieved_docs,
                   retrieved_context, previous>>

\* self.chain.invoke(...) and the extraction of the answer.
chain_invoke ==
    /\ qpc = "generate"
    /\ \E o \in ChainOutcomes(query.value) :
         /\ qaCalls' = qaCalls \o o.calls
         /\ IF o.out.raised
            THEN /\ result' = Handle(o.out.exc)
                 /\ qpc' = "returned"
                 /\ UNCHANGED <<response, answer>>
            ELSE /\ response' = o.out.value
                 /\ answer' = IF "answer" \in DOMAIN o.out.value
                              THEN o.out.value.answer
                              ELSE "No answer generated"
                 /\ qpc' = "evaluate"
                 /\ UNCHANGED result
    /\ UNCHANGED <<evalVars, mainVars, storeVars, chatVars, query, retrieved_docs,
                   retrieved_context, previous>>

\* self.evaluator.evaluate_response(...) and the assembly of the result.
evaluate_and_assemble ==
    /\ qpc = "evaluate"
    /\ \E e \in EvaluateOutcomes(query.value, answer, retrieved_context) :
         /\ qaCalls' = Append(qaCalls, Call("evaluator", e.raised))
         /\ result' = IF e.raised
                      THEN Handle(e.exc)
                      ELSE Return(Assemble(answer, e.value, response))
    /\ qpc' = "returned"
    /\ UNCHANGED <<evalVars, mainVars, storeVars, chatVars, query, retrieved_docs,
                   retrieved_context, answer, response, previous>>

QANext ==
    \/ generate_response_validate
    \/ _debug_retrieve_documents
    \/ chain_invoke
    \/ evaluate_and_assemble

QAIdle ==
    /\ qpc = "idle"
    /\ query = None
    /\ retrieved_docs = <<>>
    /\ retrieved_context = ""
    /\ answer = ""
    /\ response = None
    /\ result = None
    /\ qaCalls = <<>>
    /\ previous = "none"

\* The states main() builds a QAChain in: initialize returned True and
\* get_retriever gave a retriever.  Either every request of embed_documents
\* succeeded, or (custom provider) the last one failed.
NumChunks(texts) == (Len(texts) + batch_size - 1) \div batch_size

Chunks(texts) == [c \in 1..NumChunks(texts) |-> Slice(texts, (c - 1) * batch_size)]

ReadyStoreInit ==
    /\ env \in [base_url : BOOLEAN, api_key : BOOLEAN]
    /\ embeddings = SelectEmbeddings(env)
    /\ serverDim \in ServerDims
    /\ \E n \in 0..MaxDocs : documents = [k \in 1..n |-> Doc(k)]
    /\ probe = Return(Vec("Test embedding", serverDim))
    /\ pc = "returned"
    /\ storeCalls = <<"embed_query", "embed_documents">>
    /\ initResult = Return(TRUE)
    /\ IF embeddings = "CustomLocalEmbeddings"
       THEN /\ i = NumChunks(documents) * batch_size
            /\ requests = Chunks(documents)
            /\ \E lastFails \in BOOLEAN :
                 outcomes = [c \in 1..NumChunks(documents) |->
                                IF lastFails /\ c = NumChunks(documents)
                                THEN "request_failed" ELSE "ok"]
            /\ all_embeddings =
                 [j \in 1..Len(documents) |->
                     IF outcomes[(j + batch_size - 1) \div batch_size] = "ok"
                     THEN Vec(documents[j], serverDim) ELSE ZeroVector]
       ELSE /\ i = 0
            /\ requests = <<>>
            /\ outcomes = <<>>
            /\ all_embeddings = [j \in 1..Len(documents) |-> Vec(documents[j], serverDim)]
    /\ vectorstore = Stored(documents, all_embeddings)
    /\ retriever = RetrieverOf(vectorstore)
    /\ queryResult = [type |-> "unset"]

(***************************************************************************)
(* ChatInterface                                                           *)
(***************************************************************************)
\* add_message keeping the first MAX_HISTORY_LENGTH messages
\* (messages[:MAX_HISTORY_LENGTH]) instead of the last.
add_message_keep_oldest(msgs, message) ==
    LET a == Append(msgs, message)
    IN  IF Len(a) > MAX_HISTORY_LENGTH
        THEN SubSeq(a, 1, MAX_HISTORY_LENGTH)
        ELSE a

\* add_message: append, then keep the last MAX_HISTORY_LENGTH messages
\* (messages[-MAX_HISTORY_LENGTH:]) once there are more.
add_message(msgs, message) ==
    LET a == Append(msgs, message)
    IN  IF Len(a) > MAX_HISTORY_LENGTH
        THEN SubSeq(a, Len(a) - MAX_HISTORY_LENGTH + 1, Len(a))
        ELSE a

\* The query typed in the n-th call of process_user_input (never empty:
\* main() calls it only for a non-empty input).
UserQuery(n) == "question " \o ToString(n)

\* What a response generator can do with a query: return a dict with answer
\* and evaluation, return a dict with neither, or raise.
GeneratorOutcomes(q) ==
    { Return([answer |-> "answer to " \o q, evaluation |-> [method |-> "heuristic"]]),
      Return([sources |-> <<>>]),
      Raise("Connection error.") }

EmptyDict == [type |-> "dict"]

\* process_user_input up to the call of the generator: the user message.
process_user_input_begin ==
    /\ cpc = "idle"
    /\ Len(appended) < MaxAppended
    /\ LET message == [role |-> "user", content |-> UserQuery(Len(appended) + 1)]
       IN  /\ messages' = add_message(messages, message)
           /\ appended' = Append(appended, message)
    /\ cpc' = "generating"
    /\ UNCHANGED <<evalVars, mainVars, storeVars, qaVars, faults, chatOutcome>>

\* The rest of process_user_input.  A returned dict gives the assistant
\* message.  In the handler, `logger` is not a name of the module (only
\* `logging` is imported), so logger.error raises NameError before the
\* handler's add_message is reached.
process_user_input_respond ==
    /\ cpc = "generating"
    /\ \E o \in GeneratorOutcomes(appended[Len(appended)].content) :
         /\ faults' = IF o.raised \/ "answer" \notin DOMAIN o.value
                      THEN faults + 1 ELSE faults
         /\ faults' <= MaxFaults
         /\ IF o.raised
            THEN /\ chatOutcome' = Raise("NameError: name 'logger' is not defined")
                 /\ UNCHANGED <<messages, appended>>
            ELSE LET message ==
                       [role |-> "assistant",
                        content |-> IF "answer" \in DOMAIN o.value
                                    THEN o.value.answer
                                    ELSE "I'm sorry, I couldn't find an answer.",
                        evaluation |-> IF "evaluation" \in DOMAIN o.value
                                       THEN o.value.evaluation
                                       ELSE EmptyDict]
                 IN  /\ messages' = add_message(messages, message)
                     /\ appended' = Append(appended, message)
                     /\ chatOutcome' = Return(None)
    /\ cpc' = "idle"
    /\ UNCHANGED <<evalVars, mainVars, storeVars, qaVars>>

ChatNext ==
    \/ process_user_input_begin
    \/ process_user_input_respond

ChatIdle ==
    /\ messages = <<>>
    /\ appended = <<>>
    /\ cpc = "idle"
    /\ faults = 0
    /\ chatOutcome = None

(***************************************************************************)
(* ResponseEvaluator                                                       *)
(*                                                                         *)
(* The evaluator works on the characters of its arguments, so here a text  *)
(* is the sequence of its characters.  A float is written as the exact     *)
(* fraction [n |-> numerator, d |-> denominator] of its value.             *)
(***************************************************************************)
Uppers == <<"A", "B", "C", "D", "E", "F", "G", "H", "I", "J", "K", "L", "M", "N", "O", "P", "Q", "R", "S", "T", "U", "V", "W", "X", "Y", "Z">>

Lowers == <<"a", "b", "c", "d", "e", "f", "g", "h", "i", "j", "k", "l", "m", "n", "o", "p", "q", "r", "s", "t", "u", "v", "w", "x", "y", "z">>

Digits == <<"0", "1", "2", "3", "4", "5", "6", "7", "8", "9">>

\* str.lower(), one character
Lower(c) ==
    IF \E k \in 1..Len(Uppers) : Uppers[k] = c
    THEN Lowers[CHOOSE k \in 1..Len(Uppers) : Uppers[k] = c]
    ELSE c

IsDigit(c) == \E k \in 1..Len(Digits) : Digits[k] = c

\* int(c) of a digit
DigitValue(c) == (CHOOSE k \in 1..Len(Digits) : Digits[k] = c) - 1

\* \s of the regular expressions, and the whitespace of split() and strip()
IsSpace(c) == c \in {" ", "\n", "\t", "\r"}

\* \w of the regular expressions
IsWordChar(c) ==
    \/ \E k \in 1..Len(Uppers) : Uppers[k] = c \/ Lowers[k] = c
    \/ IsDigit(c)
    \/ c = "_"

LowerText(text) == [k \in 1..Len(text) |-> Lower(text[k])]

\* re.sub(r'[^\w\s]', '', text)
KeepWordsAndSpaces(c) == IsWordChar(c) \/ IsSpace(c)

StripPunctuation(text) == SelectSeq(text, KeepWordsAndSpaces)

\* text.split(): the maximal runs of non-whitespace characters, in order
split(text) ==
    LET starts == { k \in 1..Len(text) :
                      ~IsSpace(text[k]) /\ (k = 1 \/ IsSpace(text[k - 1])) }
        start(j) == CHOOSE k \in starts : Cardinality({x \in starts : x < k}) = j - 1
        end(k) == CHOOSE e \in k..Len(text) :
                      /\ \A x \in k..e : ~IsSpace(text[x])
                      /\ (e = Len(text) \/ IsSpace(text[e + 1]))
    IN  [j \in 1..Cardinality(starts) |-> SubSeq(text, start(j), end(start(j)))]

\* The smallest index >= from at which pat occurs in text, 0 if it does not
\* occur (pat is never empty here).
Find(text, pat, from) ==
    LET hits == { k \in from..(Len(text) - Len(pat) + 1) :
                      SubSeq(text, k, k + Len(pat) - 1) = pat }
    IN  IF hits = {} THEN 0
        ELSE CHOOSE k \in hits : \A j \in hits : k <= j

\* `pat in text`
Contains(text, pat) == Find(text, pat, 1) # 0

\* text.split(sep): the pieces between the occurrences of sep, empty pieces
\* included
RECURSIVE SplitOn(_, _)
SplitOn(text, sep) ==
    LET k == Find(text, sep, 1)
    IN  IF k = 0 THEN <<text>>
        ELSE <<SubSeq(text, 1, k - 1)>>
             \o SplitOn(SubSeq(text, k + Len(sep), Len(text)), sep)

\* text.strip()
RECURSIVE strip(_)
strip(text) ==
    IF text = <<>> THEN text
    ELSE IF IsSpace(text[1]) THEN strip(Tail(text))
    ELSE IF IsSpace(text[Len(text)]) THEN strip(SubSeq(text, 1, Len(text) - 1))
    ELSE text

stopwords ==
    { <<"y", "a", "n", "g">>,
      <<"d", "a", "n">>,
      <<"d", "i">>,
      <<"k", "e">>,
      <<"d", "a", "r", "i">>,
      <<"d", "e", "n", "g", "a", "n">>,
      <<"u", "n", "t", "u", "k">>,
      <<"p", "a", "d", "a">>,
      <<"a", "d", "a", "l", "a", "h">>,
      <<"i", "n", "i">>,
      <<"i", "t", "u">>,
      <<"t", "h", "e">>,
      <<"a">>,
      <<"a", "n">>,
      <<"a", "n", "d">>,
      <<"o", "r">>,
      <<"b", "u", "t">>,
      <<"i", "s">>,
      <<"a", "r", "e">>,
      <<"w", "a", "s">>,
      <<"w", "e", "r", "e">>,
      <<"b", "e">>,
      <<"b", "e", "e", "n">>,
      <<"b", "e", "i", "n", "g">>,
      <<"i", "n">>,
      <<"o", "n">>,
      <<"a", "t">>,
      <<"t", "o">>,
      <<"f", "o", "r">>,
      <<"w", "i", "t", "h">>,
      <<"b", "y">>,
      <<"a", "b", "o", "u", "t">>,
      <<"a", "g", "a", "i", "n", "s", "t">>,
      <<"b", "e", "t", "w", "e", "e", "n">>,
      <<"i", "n", "t", "o">>,
      <<"t", "h", "r", "o", "u", "g", "h">>,
      <<"t", "h", "i", "s">>,
      <<"t", "h", "a", "t">>,
      <<"t", "h", "e", "s", "e">>,
      <<"t", "h", "o", "s", "e">>,
      <<"o", "f">>,
      <<"f", "r", "o", "m">> }

\* _extract_keywords: lower case, punctuation removed, split, stopwords and
\* words of at most two characters dropped.
_extract_keywords(text) ==
    LET words == split(StripPunctuation(LowerText(text)))
        keep(word) == word \notin stopwords /\ Len(word) > 2
    IN  SelectSeq(words, keep)

\* set(...) of a list
SetOf(seq) == { seq[k] : k \in 1..Len(seq) }

Frac(n, d) == [n |-> n, d |-> d]

FracLess(a, b) == a.n * b.d < b.n * a.d

FracLeq(a, b) == a.n * b.d <= b.n * a.d

FracAdd(a, b) == Frac(a.n * b.d + b.n * a.d, a.d * b.d)

FracMul(a, b) == Frac(a.n * b.n, a.d * b.d)

Max(a, b) == IF a > b THEN a ELSE b

\* min(x, 5.0)
ClampToFive(x) == IF FracLess(Frac(5, 1), x) THEN Frac(5, 1) ELSE x

Metrics == <<"relevance", "completeness", "clarity", "accuracy">>

weights ==
    [relevance |-> Frac(3, 10), completeness |-> Frac(2, 10),
     clarity |-> Frac(2, 10), accuracy |-> Frac(3, 10)]

\* A weighted average with four equal weights.
WeightedSum_equal_weights(scores) ==
    FracMul(Frac(1, 4),
            FracAdd(FracAdd(scores.relevance, scores.completeness),
                    FracAdd(scores.clarity, scores.accuracy)))

\* sum(scores[metric] * weights[metric] for metric in weights)
WeightedSum(scores) ==
    FracAdd(FracAdd(FracMul(scores.relevance, weights.relevance),
                    FracMul(scores.completeness, weights.completeness)),
            FracAdd(FracMul(scores.clarity, weights.clarity),
                    FracMul(scores.accuracy, weights.accuracy)))

\* round(x, 2), in hundredths.  x is computed in binary floating point, so
\* when its exact value lies halfway between two hundredths the float may
\* lie on either side: both neighbours are possible then.
Round2(x) ==
    LET h == (100 * x.n) \div x.d
    IN  { g \in {h, h + 1} :
            /\ 2 * (100 * x.n - g * x.d) <= x.d
            /\ 2 * (g * x.d - 100 * x.n) <= x.d }

\* The four sub-scores and their reasons, as _evaluate_heuristic computes them.
HeuristicScores(q, r, ctx) ==
    LET query_terms == SetOf(_extract_keywords(q))
        response_terms == SetOf(_extract_keywords(r))
        common_terms == query_terms \cap response_terms
        word_count == Len(split(r))
        sentences == SplitOn(r, <<".">>)
        \* word_count / max(len(sentences), 1)
        avg_words_per_sentence == Frac(word_count, Max(Len(sentences), 1))
        context_terms == SetOf(_extract_keywords(ctx))
        response_unique_terms == response_terms \ query_terms
        context_overlap == response_unique_terms \cap context_terms
    IN  [relevance |->
             ClampToFive(Frac(Cardinality(common_terms) * 5,
                              Max(Cardinality(query_terms), 1))),
         completeness |->
             IF word_count < 10 THEN Frac(1, 1)
             ELSE IF word_count < 30 THEN Frac(3, 1)
             ELSE Frac(5, 1),
         clarity |->
             IF FracLess(Frac(25, 1), avg_words_per_sentence) THEN Frac(2, 1)
             ELSE IF FracLess(Frac(15, 1), avg_words_per_sentence) THEN Frac(7, 2)
             ELSE Frac(5, 1),
         accuracy |->
             ClampToFive(Frac(Cardinality(context_overlap) * 5,
                              Max(Cardinality(response_unique_terms), 1)))]

HeuristicReasons(s) ==
    [relevance |->
         IF FracLess(s.relevance, Frac(5, 2))
         THEN <<"Response doesn't contain many key terms from the query">>
         ELSE <<"Response contains key terms from the query">>,
     completeness |->
         IF s.completeness = Frac(1, 1) THEN <<"Response is too short">>
         ELSE IF s.completeness = Frac(3, 1) THEN <<"Response is of medium length">>
         ELSE <<"Response has good length">>,
     clarity |->
         IF s.clarity = Frac(2, 1) THEN <<"Sentences are too long">>
         ELSE IF s.clarity = Frac(7, 2) THEN <<"Sentences are of moderate length">>
         ELSE <<"Sentences are concise">>,
     accuracy |->
         IF FracLess(s.accuracy, Frac(5, 2))
         THEN <<"Response contains information not in the context">>
         ELSE <<"Response information is present in the context">>]

\* _evaluate_heuristic: the dicts it can return (one, or two where the
\* rounding of overall is a tie).
_evaluate_heuristic(q, r, ctx) ==
    LET s == HeuristicScores(q, r, ctx)
    IN  { [scores |-> [relevance |-> s.relevance,
                       completeness |-> s.completeness,
                       clarity |-> s.clarity,
                       accuracy |-> s.accuracy,
                       overall |-> Frac(h, 100)],
           reasons |-> HeuristicReasons(s),
           method |-> "heuristic"] : h \in Round2(WeightedSum(s)) }

\* What the secondary model can reply (eval_response.content).
\* The reply in exactly the requested line format.
\*   "Relevance: 4\nReason: r1\nCompleteness: 3\nReason: r2\nClarity: 5\nReason: r3\nAccuracy: 4\nReason: r4\nOverall: 4.0"
ExactFormatReply ==
    <<"R", "e", "l", "e", "v", "a", "n", "c", "e", ":", " ", "4", "\n">> \o
    <<"R", "e", "a", "s", "o", "n", ":", " ", "r", "1", "\n", "C", "o">> \o
    <<"m", "p", "l", "e", "t", "e", "n", "e", "s", "s", ":", " ", "3">> \o
    <<"\n", "R", "e", "a", "s", "o", "n", ":", " ", "r", "2", "\n", "C">> \o
    <<"l", "a", "r", "i", "t", "y", ":", " ", "5", "\n", "R", "e", "a">> \o
    <<"s", "o", "n", ":", " ", "r", "3", "\n", "A", "c", "c", "u", "r">> \o
    <<"a", "c", "y", ":", " ", "4", "\n", "R", "e", "a", "s", "o", "n">> \o
    <<":", " ", "r", "4", "\n", "O", "v", "e", "r", "a", "l", "l", ":">> \o
    <<" ", "4", ".", "0">>

\* Score lines only.
\*   "Relevance: 4\nOverall: 4.5"
ScoresOnlyReply ==
    <<"R", "e", "l", "e", "v", "a", "n", "c", "e", ":", " ", "4", "\n">> \o
    <<"O", "v", "e", "r", "a", "l", "l", ":", " ", "4", ".", "5">>

\* Score lines whose numbers are outside the requested scale.
\*   "Relevance: 9\nOverall: 7.5"
OutOfScaleReply ==
    <<"R", "e", "l", "e", "v", "a", "n", "c", "e", ":", " ", "9", "\n">> \o
    <<"O", "v", "e", "r", "a", "l", "l", ":", " ", "7", ".", "5">>

\* The requested lines after a preamble line that mentions Reason:.
\*   "Note Reason: x\nRelevance: 4\nReason: r1\nCompleteness: 3\nReason: r2\nClarity: 5\nReason: r3\nAccuracy: 4\nReason: r4\nOverall: 4.0"
PreambleReply ==
    <<"N", "o", "t", "e", " ", "R", "e", "a", "s", "o", "n", ":", " ">> \o
    <<"x", "\n", "R", "e", "l", "e", "v", "a", "n", "c", "e", ":", " ">> \o
    <<"4", "\n", "R", "e", "a", "s", "o", "n", ":", " ", "r", "1", "\n">> \o
    <<"C", "o", "m", "p", "l", "e", "t", "e", "n", "e", "s", "s", ":">> \o
    <<" ", "3", "\n", "R", "e", "a", "s", "o", "n", ":", " ", "r", "2">> \o
    <<"\n", "C", "l", "a", "r", "i", "t", "y", ":", " ", "5", "\n", "R">> \o
    <<"e", "a", "s", "o", "n", ":", " ", "r", "3", "\n", "A", "c", "c">> \o
    <<"u", "r", "a", "c", "y", ":", " ", "4", "\n", "R", "e", "a", "s">> \o
    <<"o", "n", ":", " ", "r", "4", "\n", "O", "v", "e", "r", "a", "l">> \o
    <<"l", ":", " ", "4", ".", "0">>

\* No line of the requested format.
\*   "I cannot grade this."
FreeTextReply ==
    <<"I", " ", "c", "a", "n", "n", "o", "t", " ", "g", "r", "a", "d">> \o
    <<"e", " ", "t", "h", "i", "s", ".">>

ModelReplies ==
    { ExactFormatReply, ScoresOnlyReply, OutOfScaleReply, PreambleReply,
      FreeTextReply, <<>> }

\* self.eval_llm.invoke(eval_prompt): a reply, or an exception.
EvalLlmOutcomes ==
    { Return(t) : t \in ModelReplies } \cup { Raise("Connection error.") }

ScoreNames ==
    << <<"R", "e", "l", "e", "v", "a", "n", "c", "e">>,
       <<"C", "o", "m", "p", "l", "e", "t", "e", "n", "e", "s", "s">>,
       <<"C", "l", "a", "r", "i", "t", "y">>,
       <<"A", "c", "c", "u", "r", "a", "c", "y">>,
       <<"O", "v", "e", "r", "a", "l", "l">> >>

\* metric.lower() of the five names
ScoreKeys == <<"relevance", "completeness", "clarity", "accuracy", "overall">>

ReasonLabel == <<"R", "e", "a", "s", "o", "n", ":">>

StartsWith(text, pat) ==
    Len(text) >= Len(pat) /\ SubSeq(text, 1, Len(pat)) = pat

\* Where a greedy \s* that starts at index p stops: the first index >= p of
\* text that holds no whitespace (Len(text) + 1 if there is none).
SkipSpaces(text, p) ==
    LET stops == { k \in p..Len(text) : ~IsSpace(text[k]) }
    IN  IF stops = {} THEN Len(text) + 1
        ELSE CHOOSE k \in stops : \A j \in stops : k <= j

\* The same for a greedy \d*.
SkipDigits(text, p) ==
    LET stops == { k \in p..Len(text) : ~IsDigit(text[k]) }
    IN  IF stops = {} THEN Len(text) + 1
        ELSE CHOOSE k \in stops : \A j \in stops : k <= j

RECURSIVE ToNat(_)
ToNat(ds) ==
    IF ds = <<>> THEN 0
    ELSE 10 * ToNat(SubSeq(ds, 1, Len(ds) - 1)) + DigitValue(ds[Len(ds)])

RECURSIVE Pow10(_)
Pow10(k) == IF k = 0 THEN 1 ELSE 10 * Pow10(k - 1)

\* float(score) of a string matched by \d+\.?\d*
ToFloat(intDigits, fracDigits) ==
    Frac(ToNat(intDigits \o fracDigits), Pow10(Len(fracDigits)))

\* re.match(r'(Relevance|Completeness|Clarity|Accuracy|Overall):\s*(\d+\.?\d*)', line):
\* None, or the groups (metric, score) with the score already a float.
ScoreMatch(line) ==
    LET names == { k \in 1..Len(ScoreNames) : StartsWith(line, Append(ScoreNames[k], ":")) }
    IN  IF names = {} THEN None
        ELSE LET k == CHOOSE x \in names : TRUE
                 a == SkipSpaces(line, Len(ScoreNames[k]) + 2)
                 b == SkipDigits(line, a)
                 dot == b <= Len(line) /\ line[b] = "."
                 c == IF dot THEN SkipDigits(line, b + 1) ELSE b
             IN  IF b = a THEN None
                 ELSE [metric |-> ScoreKeys[k],
                       score |-> ToFloat(SubSeq(line, a, b - 1),
                                         IF dot THEN SubSeq(line, b + 1, c - 1) ELSE <<>>)]

\* re.match(r'Reason:\s*(.*)', line): None, or group(1)
ReasonMatch(line) ==
    IF StartsWith(line, ReasonLabel)
    THEN [reason |-> SubSeq(line, SkipSpaces(line, Len(ReasonLabel) + 1), Len(line))]
    ELSE None

\* metric.capitalize() of the four metrics
Capitalized == [relevance |-> ScoreNames[1], completeness |-> ScoreNames[2],
                clarity |-> ScoreNames[3], accuracy |-> ScoreNames[4]]

\* d[key] = value on a dict
Put(d, key, value) ==
    [x \in DOMAIN d \cup {key} |-> IF x = key THEN value ELSE d[x]]

\* {}
EmptyMap == [x \in {} |-> x]

\* The loop over the four metrics for one Reason line:
\* eval_text.split(line)[0].split("Reason:")[-2] is the text between the
\* last two "Reason:" before the line's first occurrence (from the start of
\* the text when there is one "Reason:" only); with no "Reason:" before the
\* line the index -2 does not exist.
AttributeReason(eval_text, line, reason, reasons) ==
    LET pieces == SplitOn(SplitOn(eval_text, line)[1], ReasonLabel)
    IN  IF Len(pieces) < 2
        THEN Raise("list index out of range")
        ELSE LET span == pieces[Len(pieces) - 1]
                 hits == { k \in 1..Len(Metrics) : Contains(span, Capitalized[Metrics[k]]) }
             IN  IF hits = {} THEN Return(reasons)
                 ELSE Return(Put(reasons,
                                 Metrics[CHOOSE k \in hits : \A j \in hits : k <= j],
                                 <<reason>>))

\* The loop of _parse_evaluation from line k on.
RECURSIVE ParseLines(_, _, _, _, _)
ParseLines(eval_text, lines, k, scores, reasons) ==
    IF k > Len(lines)
    THEN Return([scores |-> scores, reasons |-> reasons])
    ELSE LET line == strip(lines[k])
         IN  IF line = <<>>
             THEN ParseLines(eval_text, lines, k + 1, scores, reasons)
             ELSE IF ScoreMatch(line) # None
             THEN ParseLines(eval_text, lines, k + 1,
                             Put(scores, ScoreMatch(line).metric, ScoreMatch(line).score),
                             reasons)
             ELSE IF ReasonMatch(line) # None
             THEN LET r == AttributeReason(eval_text, line, ReasonMatch(line).reason, reasons)
                  IN  IF r.raised THEN r
                      ELSE ParseLines(eval_text, lines, k + 1, scores, r.value)
             ELSE ParseLines(eval_text, lines, k + 1, scores, reasons)

_parse_evaluation(eval_text) ==
    ParseLines(eval_text, SplitOn(eval_text, <<"\n">>), 1, EmptyMap, EmptyMap)

\* A handler of _evaluate_with_model that lets the exception out.
HeuristicFallback_reraise(q, r, ctx, e) == { Raise(e) }

\* The handler of _evaluate_with_model: the heuristic result with str(e)
\* attached.
HeuristicFallback(q, r, ctx, e) ==
    { Return([scores |-> h.scores, reasons |-> h.reasons, method |-> h.method,
              error |-> e]) : h \in _evaluate_heuristic(q, r, ctx) }

\* _evaluate_with_model after eval_llm.invoke ended as `llm`: what it returns.
_evaluate_with_model(q, r, ctx, llm) ==
    IF llm.raised
    THEN HeuristicFallback(q, r, ctx, llm.exc)
    ELSE LET parsed == _parse_evaluation(llm.value)
         IN  IF parsed.raised
             THEN HeuristicFallback(q, r, ctx, parsed.exc)
             ELSE { Return([scores |-> parsed.value.scores,
                            reasons |-> parsed.value.reasons,
                            method |-> "model",
                            raw_evaluation |-> llm.value]) }

\* Arguments evaluate_response is called with.
\*   "Apa itu Nawatech?"
QueryApaItu ==
    <<"A", "p", "a", " ", "i", "t", "u", " ", "N", "a", "w", "a", "t">> \o
    <<"e", "c", "h", "?">>

\*   "Siapa pendiri Nawatech sekarang ini?"
QuerySiapa ==
    <<"S", "i", "a", "p", "a", " ", "p", "e", "n", "d", "i", "r", "i">> \o
    <<" ", "N", "a", "w", "a", "t", "e", "c", "h", " ", "s", "e", "k">> \o
    <<"a", "r", "a", "n", "g", " ", "i", "n", "i", "?">>

\*   "di ke"
QueryStopwords ==
    <<"d", "i", " ", "k", "e">>

\*   "Perusahaan teknologi"
ResponseShort ==
    <<"P", "e", "r", "u", "s", "a", "h", "a", "a", "n", " ", "t", "e">> \o
    <<"k", "n", "o", "l", "o", "g", "i">>

\*   "Nawatech adalah perusahaan teknologi yang membuat solusi digital untuk bisnis di Indonesia."
ResponseSentence ==
    <<"N", "a", "w", "a", "t", "e", "c", "h", " ", "a", "d", "a", "l">> \o
    <<"a", "h", " ", "p", "e", "r", "u", "s", "a", "h", "a", "a", "n">> \o
    <<" ", "t", "e", "k", "n", "o", "l", "o", "g", "i", " ", "y", "a">> \o
    <<"n", "g", " ", "m", "e", "m", "b", "u", "a", "t", " ", "s", "o">> \o
    <<"l", "u", "s", "i", " ", "d", "i", "g", "i", "t", "a", "l", " ">> \o
    <<"u", "n", "t", "u", "k", " ", "b", "i", "s", "n", "i", "s", " ">> \o
    <<"d", "i", " ", "I", "n", "d", "o", "n", "e", "s", "i", "a", ".">>

\*   "Document 1:\nQ: Apa itu Nawatech?\nA: Perusahaan teknologi\n"
ContextFaq ==
    <<"D", "o", "c", "u", "m", "e", "n", "t", " ", "1", ":", "\n", "Q">> \o
    <<":", " ", "A", "p", "a", " ", "i", "t", "u", " ", "N", "a", "w">> \o
    <<"a", "t", "e", "c", "h", "?", "\n", "A", ":", " ", "P", "e", "r">> \o
    <<"u", "s", "a", "h", "a", "a", "n", " ", "t", "e", "k", "n", "o">> \o
    <<"l", "o", "g", "i", "\n">>

\*   "nawatech "
Word ==
    <<"n", "a", "w", "a", "t", "e", "c", "h", " ">>

\* word * n
RECURSIVE Repeat(_, _)
Repeat(word, n) == IF n = 0 THEN <<>> ELSE word \o Repeat(word, n - 1)

EvalQueries == { QueryApaItu, QuerySiapa, QueryStopwords }

\* Responses of 0, 2, 12, 20 and 32 words; the last two are one sentence.
EvalResponses ==
    { <<>>, ResponseShort, ResponseSentence, Repeat(Word, 20), Repeat(Word, 32) }

EvalContexts == { <<>>, ContextFaq }

\* evaluate_response for the heuristic strategy, and the entry of
\* _evaluate_with_model for the model strategy.
evaluate_response ==
    /\ epc \in {"idle", "returned"}
    /\ Len(eval_log) < MaxEvalCalls
    /\ \E q \in EvalQueries, r \in EvalResponses, ctx \in EvalContexts :
         /\ eval_args' = [query |-> q, response |-> r, context |-> ctx]
         /\ IF use_model
            THEN /\ epc' = "invoke"
                 /\ evaluation' = None
                 /\ UNCHANGED eval_log
            ELSE /\ epc' = "returned"
                 /\ \E h \in _evaluate_heuristic(q, r, ctx) : evaluation' = Return(h)
                 /\ eval_log' = Append(eval_log, "heuristic")
    /\ eval_response' = None
    /\ UNCHANGED <<eval_env, use_model>>
    /\ UNCHANGED <<storeVars, qaVars, chatVars, mainVars>>

\* The handler of _evaluate_with_model clearing self.use_model.
_evaluate_with_model_invoke_disables_model ==
    /\ epc = "invoke"
    /\ \E llm \in EvalLlmOutcomes :
         /\ eval_response' = llm
         /\ IF llm.raised
            THEN /\ \E e \in _evaluate_with_model(eval_args.query, eval_args.response,
                                                  eval_args.context, llm) :
                        evaluation' = e
                 /\ epc' = "returned"
                 /\ eval_log' = Append(eval_log, "fallback")
                 /\ use_model' = FALSE
            ELSE /\ epc' = "parse"
                 /\ UNCHANGED <<evaluation, eval_log, use_model>>
    /\ UNCHANGED <<eval_env, eval_args>>
    /\ UNCHANGED <<storeVars, qaVars, chatVars, mainVars>>

\* self.eval_llm.invoke(eval_prompt); its exception goes to the handler.
_evaluate_with_model_invoke ==
    /\ epc = "invoke"
    /\ \E llm \in EvalLlmOutcomes :
         /\ eval_response' = llm
         /\ IF llm.raised
            THEN /\ \E e \in _evaluate_with_model(eval_args.query, eval_args.response,
                                                  eval_args.context, llm) :
                        evaluation' = e
                 /\ epc' = "returned"
                 /\ eval_log' = Append(eval_log, "fallback")
            ELSE /\ epc' = "parse"
                 /\ UNCHANGED <<evaluation, eval_log>>
    /\ UNCHANGED <<eval_env, use_model, eval_args>>
    /\ UNCHANGED <<storeVars, qaVars, chatVars, mainVars>>

\* _parse_evaluation(eval_text) and the return of _evaluate_with_model.
_evaluate_with_model_parse ==
    /\ epc = "parse"
    /\ \E e \in _evaluate_with_model(eval_args.query, eval_args.response,
                                     eval_args.context, eval_response) :
         /\ evaluation' = e
         /\ eval_log' = Append(eval_log,
                               IF e.raised THEN "raised"
                               ELSE IF "error" \in DOMAIN e.value THEN "fallback"
                               ELSE "model")
    /\ epc' = "returned"
    /\ UNCHANGED <<eval_env, use_model, eval_args, eval_response>>
    /\ UNCHANGED <<storeVars, qaVars, chatVars, mainVars>>

EvalNext ==
    \/ evaluate_response
    \/ _evaluate_with_model_invoke
    \/ _evaluate_with_model_parse

\* The values USE_MODEL_EVALUATOR can have: not set, or a text.
EvaluatorFlags ==
    { None,
      PyStr(<<"t", "r", "u", "e">>),
      PyStr(<<"T", "r", "u", "E">>),
      PyStr(<<"y", "e", "s">>),
      PyStr(<<" ", "t", "r", "u", "e">>) }

\* os.getenv(name, default) for the value v of the variable.
getenv(v, default) == IF v = None THEN default ELSE v.value

\* ResponseEvaluator.__init__: use_model is the lower-cased flag compared
\* with "true"; then ChatOpenAI(...) is called, and use_model is False when
\* it raised (ok is whether it does not).
ResponseEvaluator_init(flag, ok) ==
    LET wanted == LowerText(getenv(flag, <<"F", "a", "l", "s", "e">>))
                      = <<"t", "r", "u", "e">>
    IN  [use_model |-> wanted /\ ok,
         ChatOpenAI |-> IF ~wanted THEN "not_called"
                        ELSE IF ok THEN "constructed"
                        ELSE "raised"]

\* The state after ResponseEvaluator().
EvalInit ==
    /\ \E flag \in EvaluatorFlags, ok \in BOOLEAN :
         LET self == ResponseEvaluator_init(flag, ok)
         IN  /\ eval_env = [USE_MODEL_EVALUATOR |-> flag, ChatOpenAI |-> self.ChatOpenAI]
             /\ use_model = self.use_model
    /\ eval_args = None
    /\ eval_response = None
    /\ evaluation = None
    /\ epc = "idle"
    /\ eval_log = <<>>

\* The evaluator of a process that does not set USE_MODEL_EVALUATOR.
EvalIdle ==
    /\ EvalInit
    /\ eval_env.USE_MODEL_EVALUATOR = None

(***************************************************************************)
(* main()                                                                  *)
(***************************************************************************)
Unset == [type |-> "unset"]

\* Before the first run of main().
MainIdle ==
    /\ mpc = "start"
    /\ faq = Unset
    /\ custom_init = None
    /\ cache = Unset
    /\ vector_store = Unset
    /\ st_errors = {}
    /\ run_base = 0
    /\ runs = 0

\* The CSV files main() can find at FAQ_FILE: unreadable, or a table with
\* some columns and rows.  A row is its line number and the text of its two
\* required fields: row k has the question "q<k>" and the answer "a<k>",
\* except that its question is empty for k in no_question, its answer is
\* empty for k in no_answer and is the text "N/A" for k in na_answer.
CsvRows(n, no_question, no_answer, na_answer) ==
    [k \in 1..n |->
       [id |-> k,
        question |-> IF k \in no_question THEN "" ELSE "q" \o ToString(k),
        answer |-> IF k \in no_answer THEN ""
                   ELSE IF k \in na_answer THEN "N/A"
                   ELSE "a" \o ToString(k)]]

NoFile == [readable |-> FALSE, columns |-> {}, rows |-> <<>>]

CsvFiles ==
    { NoFile,
      [readable |-> TRUE, columns |-> {"question"}, rows |-> CsvRows(2, {}, {}, {})],
      [readable |-> TRUE, columns |-> {"pertanyaan", "answer"},
       rows |-> CsvRows(2, {}, {}, {})],
      [readable |-> TRUE, columns |-> {"question", "answer", "category"},
       rows |-> CsvRows(3, {}, {2}, {})],
      [readable |-> TRUE, columns |-> {"question", "answer"},
       rows |-> CsvRows(4, {1}, {3}, {})],
      [readable |-> TRUE, columns |-> {"question", "answer"},
       rows |-> CsvRows(3, {}, {}, {2})] }
    \cup { [readable |-> TRUE, columns |-> {"question", "answer"},
            rows |-> CsvRows(n, {}, {}, {})] : n \in 0..MaxDocs }

required_columns == {"question", "answer"}

\* The texts pd.read_csv takes for a missing value when na_values and
\* keep_default_na are left at their defaults, as load_faq_data leaves them.
STR_NA_VALUES ==
    { "", "#N/A", "#N/A N/A", "#NA", "-1.#IND", "-1.#QNAN", "-NaN", "-nan",
      "1.#IND", "1.#QNAN", "<NA>", "N/A", "NA", "NULL", "NaN", "None", "n/a",
      "nan", "null" }

NaN == [type |-> "float", value |-> "nan"]

\* pd.read_csv on one field: NaN for the texts above, else the text.
ParseField(text) == IF text \in STR_NA_VALUES THEN NaN ELSE PyStr(text)

\* pd.read_csv(csv_path) on the rows of a readable file.
read_csv(csv) ==
    [type |-> "DataFrame", columns |-> csv.columns,
     rows |-> [k \in 1..Len(csv.rows) |->
                 [id |-> csv.rows[k].id,
                  question |-> ParseField(csv.rows[k].question),
                  answer |-> ParseField(csv.rows[k].answer)]]]

isna(v) == v = NaN

\* A row df.dropna(subset=required_columns) keeps.
IsComplete(row) == ~isna(row.question) /\ ~isna(row.answer)

\* load_faq_data: None when the file cannot be read or a required column is
\* missing; otherwise the table without the rows that miss a value.
load_faq_data(csv) ==
    IF ~csv.readable THEN None
    ELSE IF required_columns \ csv.columns # {} THEN None
    ELSE [type |-> "DataFrame", columns |-> csv.columns,
          rows |-> SelectSeq(read_csv(csv).rows, IsComplete)]

\* f"{value}" for a value of the table.
Format(v) == v.value

\* create_documents_from_faqs emitting the rows in reverse.
create_documents_from_faqs_reversed(df) ==
    [k \in 1..Len(df.rows) |->
       "Q: " \o Format(df.rows[Len(df.rows) + 1 - k].question)
       \o "\nA: " \o Format(df.rows[Len(df.rows) + 1 - k].answer)]

\* create_documents_from_faqs: one document per row, in order.
create_documents_from_faqs(df) ==
    [k \in 1..Len(df.rows) |->
       "Q: " \o Format(df.rows[k].question) \o "\nA: " \o Format(df.rows[k].answer)]

\* VectorStore.__init__ choosing the custom provider when either setting is
\* present.
VectorStoreEmbeddings_either_setting(e, constructed) ==
    IF e.base_url \/ e.api_key
    THEN IF constructed THEN "CustomLocalEmbeddings" ELSE "OpenAIEmbeddings"
    ELSE "OpenAIEmbeddings"

\* VectorStore.__init__: `if base_url and api_key`, then the custom provider,
\* or the managed one when its construction raised; the managed one
\* otherwise.
VectorStoreEmbeddings(e, constructed) ==
    IF e.base_url /\ e.api_key
    THEN IF constructed THEN "CustomLocalEmbeddings" ELSE "OpenAIEmbeddings"
    ELSE "OpenAIEmbeddings"

LoadFailedMessage == "Failed to load FAQ data. Please check the CSV file."

InitFailedMessage == "Failed to initialize vector store."

RetrieverFailedMessage == "Failed to create retriever."

VectorStoreObject == [type |-> "VectorStore"]

\* A run of main() begins (streamlit runs the script once per interaction).
main_start ==
    /\ mpc \in {"start", "done", "stopped"}
    /\ runs < MaxRuns
    /\ runs' = runs + 1
    /\ run_base' = Len(appended)
    /\ vector_store' = Unset
    /\ mpc' = "initialize_vector_store"
    /\ UNCHANGED <<csv_file, faq, custom_init, cache, st_errors>>
    /\ UNCHANGED <<storeVars, qaVars, chatVars, evalVars>>

\* initialize_vector_store() up to VectorStore(): with a cached result the
\* body is not run; otherwise load_faq_data, and on None st.error and
\* `return None`, else create_documents_from_faqs.
initialize_vector_store ==
    /\ mpc = "initialize_vector_store"
    /\ IF cache # Unset
       THEN /\ vector_store' = cache.value
            /\ mpc' = "check_store"
            /\ UNCHANGED <<faq, cache, st_errors, documents>>
       ELSE /\ faq' = load_faq_data(csv_file)
            /\ IF faq' = None
               THEN /\ st_errors' = st_errors \cup {LoadFailedMessage}
                    /\ cache' = Return(None)
                    /\ vector_store' = None
                    /\ mpc' = "check_store"
                    /\ UNCHANGED documents
               ELSE /\ documents' = create_documents_from_faqs(faq')
                    /\ mpc' = "construct"
                    /\ UNCHANGED <<cache, st_errors, vector_store>>
    /\ UNCHANGED <<csv_file, custom_init, run_base, runs>>
    /\ UNCHANGED <<env, embeddings, serverDim, vectorstore, pc, probe, i,
                   all_embeddings, requests, outcomes, initResult, storeCalls,
                   retriever, queryResult>>
    /\ UNCHANGED <<qaVars, chatVars, evalVars>>

\* VectorStore(): the provider is selected.  CustomLocalEmbeddings(...) is
\* inside try/except; its outcome is taken as either.
VectorStore_init ==
    /\ mpc = "construct"
    /\ \E constructed \in BOOLEAN :
         /\ custom_init' = IF env.base_url /\ env.api_key
                           THEN IF constructed
                                THEN Return("CustomLocalEmbeddings")
                                ELSE Raise("Exception")
                           ELSE None
         /\ embeddings' = VectorStoreEmbeddings(env, constructed)
    /\ vectorstore' = None
    /\ pc' = "constructed"
    /\ mpc' = "initialize"
    /\ UNCHANGED <<csv_file, faq, cache, vector_store, st_errors, run_base, runs>>
    /\ UNCHANGED <<env, serverDim, documents, probe, i, all_embeddings, requests,
                   outcomes, initResult, storeCalls, retriever, queryResult>>
    /\ UNCHANGED <<qaVars, chatVars, evalVars>>

\* The end of initialize_vector_store(): `if not vector_store.initialize(...)`
\* then st.error and None; the result is cached either way.
initialize_vector_store_return ==
    /\ mpc = "initialize"
    /\ pc = "returned"
    /\ IF initResult = Return(TRUE)
       THEN /\ vector_store' = VectorStoreObject
            /\ UNCHANGED st_errors
       ELSE /\ vector_store' = None
            /\ st_errors' = st_errors \cup {InitFailedMessage}
    /\ cache' = Return(vector_store')
    /\ mpc' = "check_store"
    /\ UNCHANGED <<csv_file, faq, custom_init, run_base, runs>>
    /\ UNCHANGED <<storeVars, qaVars, chatVars, evalVars>>

\* main() proceeding although initialize_vector_store() returned None.
main_check_store_no_stop ==
    /\ mpc = "check_store"
    /\ mpc' = "get_retriever"
    /\ retriever' = Unset
    /\ UNCHANGED <<csv_file, faq, custom_init, cache, vector_store, st_errors, run_base, runs>>
    /\ UNCHANGED <<env, embeddings, serverDim, documents, vectorstore, pc, probe,
                   i, all_embeddings, requests, outcomes, initResult, storeCalls,
                   queryResult>>
    /\ UNCHANGED <<qaVars, chatVars, evalVars>>

\* `if vector_store is None: st.stop()`
main_check_store ==
    /\ mpc = "check_store"
    /\ IF vector_store = None
       THEN /\ mpc' = "stopped"
            /\ UNCHANGED retriever
       ELSE /\ mpc' = "get_retriever"
            /\ retriever' = Unset
    /\ UNCHANGED <<csv_file, faq, custom_init, cache, vector_store, st_errors, run_base, runs>>
    /\ UNCHANGED <<env, embeddings, serverDim, documents, vectorstore, pc, probe,
                   i, all_embeddings, requests, outcomes, initResult, storeCalls,
                   queryResult>>
    /\ UNCHANGED <<qaVars, chatVars, evalVars>>

\* `if retriever is None: st.error(...); st.stop()`, else QAChain(retriever).
main_check_retriever ==
    /\ mpc = "get_retriever"
    /\ retriever # Unset
    /\ IF retriever = None
       THEN /\ st_errors' = st_errors \cup {RetrieverFailedMessage}
            /\ mpc' = "stopped"
       ELSE /\ mpc' = "input"
            /\ UNCHANGED st_errors
    /\ UNCHANGED <<csv_file, faq, custom_init, cache, vector_store, run_base, runs>>
    /\ UNCHANGED <<storeVars, qaVars, chatVars, evalVars>>

\* The run ends: no input was typed, or process_user_input is over.
main_end ==
    /\ mpc = "input"
    /\ cpc = "idle"
    /\ mpc' = "done"
    /\ UNCHANGED <<csv_file, faq, custom_init, cache, vector_store, st_errors, run_base, runs>>
    /\ UNCHANGED <<storeVars, qaVars, chatVars, evalVars>>

\* main(): the steps above, vector_store.initialize(documents) inside
\* initialize_vector_store, vector_store.get_retriever(), and
\* process_user_input for the one query a run can bring.
MainNext ==
    \/ main_start
    \/ initialize_vector_store
    \/ VectorStore_init
    \/ (mpc = "initialize" /\ initialize_probe)
    \/ (mpc = "initialize" /\ add_texts_begin)
    \/ (mpc = "initialize" /\ embed_documents_batch)
    \/ (mpc = "initialize" /\ add_texts_store)
    \/ (mpc = "initialize" /\ openai_add_texts)
    \/ initialize_vector_store_return
    \/ main_check_store
    \/ (mpc = "get_retriever" /\ retriever = Unset /\ get_retriever)
    \/ main_check_retriever
    \/ (mpc = "input" /\ Len(appended) = run_base /\ process_user_input_begin)
    \/ (mpc = "input" /\ process_user_input_respond)
    \/ main_end

(***************************************************************************)
(* Specifications                                                          *)
(***************************************************************************)
StoreSpecInit ==
    StoreInit /\ QAIdle /\ ChatIdle /\ EvalIdle /\ MainIdle /\ csv_file = NoFile

StoreSpec == StoreSpecInit /\ [][StoreNext]_vars

QASpecInit ==
    ReadyStoreInit /\ QAIdle /\ ChatIdle /\ EvalIdle /\ MainIdle /\ csv_file = NoFile

QASpec == QASpecInit /\ [][QANext]_vars

\* The chat history alone: the generator is any callable.
ChatSpecInit ==
    /\ StoreInit /\ Len(documents) = 0 /\ serverDim = DefaultDimensions
    /\ env = [base_url |-> TRUE, api_key |-> TRUE]
    /\ QAIdle /\ ChatIdle /\ EvalIdle /\ MainIdle /\ csv_file = NoFile

ChatSpec == ChatSpecInit /\ [][ChatNext]_vars

\* The evaluator alone.
EvalSpecInit ==
    /\ StoreInit /\ Len(documents) = 0 /\ serverDim = DefaultDimensions
    /\ env = [base_url |-> TRUE, api_key |-> TRUE]
    /\ QAIdle /\ ChatIdle /\ EvalInit /\ MainIdle /\ csv_file = NoFile

EvalSpec == EvalSpecInit /\ [][EvalNext]_vars

\* The application from its start: nothing is constructed yet.
MainSpecInit ==
    /\ env \in [base_url : BOOLEAN, api_key : BOOLEAN]
    /\ serverDim \in ServerDims
    /\ embeddings = "unconstructed"
    /\ pc = "unconstructed"
    /\ documents = <<>>
    /\ vectorstore = None
    /\ probe = None
    /\ i = 0
    /\ all_embeddings = <<>>
    /\ requests = <<>>
    /\ outcomes = <<>>
    /\ initResult = None
    /\ storeCalls = <<>>
    /\ retriever = Unset
    /\ queryResult = Unset
    /\ QAIdle /\ ChatIdle /\ EvalIdle /\ MainIdle /\ csv_file \in CsvFiles

MainSpec == MainSpecInit /\ [][MainNext]_vars

(***************************************************************************)
(* Properties                                                              *)
(***************************************************************************)
IsReturn(r) == "raised" \in DOMAIN r /\ ~r.raised

IsRaise(r) == "raised" \in DOMAIN r /\ r.raised

\* embed_documents of the custom provider has run to its return statement.
EmbedDocumentsDone ==
    /\ embeddings = "CustomLocalEmbeddings"
    /\ pc \in {"embed_documents", "returned"}
    /\ Len(storeCalls) = 2
    /\ i >= Len(documents)

\* C1: for every list of n texts and every pattern of per-chunk outcomes
\* (success, request failure, malformed or short response), embed_documents
\* returns exactly n vectors, the one at position j being the embedding of
\* text j or the zero vector substituted for it.
C1_LengthAndPositionPreserved ==
    EmbedDocumentsDone =>
        /\ Len(all_embeddings) = Len(documents)
        /\ \A j \in 1..Len(documents) :
             all_embeddings[j] \in {Vec(documents[j], serverDim), ZeroVector}

\* C2: when a chunk request fails inside embed_documents, every item of that
\* chunk is replaced by an all-0.0 vector whose length is the length of the
\* vector the probe embed_query call of initialize returned.  (Checked in the
\* state right after each chunk, whose vectors are then the last ones of
\* all_embeddings.)
C2_ZeroVectorHasProbeDimensionality ==
    (Len(outcomes) > 0 /\ pc = "embed_documents"
        /\ outcomes[Len(outcomes)] = "request_failed") =>
        \A j \in 1..Len(requests[Len(requests)]) :
            all_embeddings[Len(all_embeddings) - j + 1] =
                [len |-> probe.value.len, of |-> "0.0"]

\* C3: after a successful initialize all vectors stored in the index have the
\* same length, also when some chunks failed and others succeeded.
C3_IndexHasOneDimensionality ==
    (pc = "returned" /\ initResult = Return(TRUE)) =>
        \A a, b \in 1..Len(vectorstore.store) :
            vectorstore.store[a].vector.len = vectorstore.store[b].vector.len

\* C6: if the probe embed_query call raises, initialize returns False, no
\* document is embedded or indexed (embed_documents is never called, no
\* request is sent) and vectorstore stays None.
C6_ProbeFailureIsFatal ==
    IsRaise(probe) =>
        /\ pc = "returned"
        /\ initResult = Return(FALSE)
        /\ vectorstore = None
        /\ storeCalls = <<"embed_query">>
        /\ requests = <<>>
        /\ all_embeddings = <<>>

C6_Witness ==
    /\ IsRaise(probe)
    /\ pc = "returned"
    /\ Len(documents) > 0

\* C7: whenever initialize returns False, for whatever reason, the index is
\* left uninitialized: vectorstore is None and a subsequent get_retriever
\* returns None.
C7_FailureLeavesStoreUninitialized ==
    (pc = "returned" /\ initResult = Return(FALSE)) =>
        /\ vectorstore = None
        /\ RetrieverOf(vectorstore) = None

\* C8 as stated: a query returns at most TOP_K documents, and on an
\* uninitialized index the retrieval path still exists (no missing
\* retriever) and yields the empty sequence.
C8_EmptyResultWhenUninitialized ==
    /\ IsReturn(queryResult) => Len(queryResult.value) <= TOP_K
    /\ (vectorstore = None /\ retriever.type # "unset") =>
           /\ retriever # None
           /\ queryResult = Return(<<>>)

\* C8 amended: the retriever is an MMR retriever with k = TOP_K and
\* fetch_k = 10 * k; a query returns at most TOP_K distinct documents of the
\* index; on an uninitialized index get_retriever returns None and no query
\* is answered at all.
C8_AtMostKOrNoRetriever ==
    /\ (retriever # None /\ retriever.type = "mmr") =>
           /\ retriever.k = TOP_K
           /\ retriever.fetch_k = 10 * retriever.k
    /\ IsReturn(queryResult) =>
           /\ Len(queryResult.value) <= TOP_K
           /\ \A a \in 1..Len(queryResult.value) :
                \E b \in 1..Len(vectorstore.store) :
                    vectorstore.store[b].text = queryResult.value[a]
           /\ \A a, b \in 1..Len(queryResult.value) :
                a # b => queryResult.value[a] # queryResult.value[b]
    /\ (vectorstore = None /\ retriever.type # "unset") =>
           /\ retriever = None
           /\ queryResult = [type |-> "unset"]

C8_Witness ==
    /\ IsReturn(queryResult)
    /\ Len(queryResult.value) = TOP_K
    /\ Len(vectorstore.store) > TOP_K

\* C4: generate_response called with the empty string, None or any
\* non-string value returns exactly {answer: "Invalid query input."} and
\* calls neither the retriever (hence no embedding), nor the chain, nor the
\* evaluator.
C4_InvalidInputShortCircuits ==
    (qpc # "idle" /\ (query = PyStr("") \/ query = None \/ query.type # "str")) =>
        /\ qpc = "returned"
        /\ result = Return([answer |-> "Invalid query input."])
        /\ qaCalls = <<>>

C4_Witness ==
    /\ qpc = "returned"
    /\ query = PyInt("5")
    /\ result = Return(InvalidResult)

\* C9: generate_response never raises: whatever fails in retrieval,
\* generation, answer extraction or evaluation, every stage can go on and the
\* call ends by returning a dict that has an 'answer' key.
C9_AlwaysReturnsAnAnswer ==
    /\ ~IsRaise(result)
    /\ qpc = "returned" => (IsReturn(result) /\ "answer" \in DOMAIN result.value)
    /\ qpc \in {"retrieve", "generate", "evaluate"} => ENABLED QANext

C9_Witness ==
    /\ qpc = "returned"
    /\ \E c \in 1..Len(qaCalls) : qaCalls[c].raised /\ qaCalls[c].call = "evaluator"
    /\ IsReturn(result)
    /\ result.value.evaluation.method = "error"

\* C10: when a stage after validation raises an exception with message m,
\* generate_response returns exactly answer = "I apologize, but I encountered
\* an error: m", error = m and evaluation = {scores: {overall: 0.0},
\* reasons: {error: [m]}, method: "error"}, and no other field.
C10_ErrorResultHasNoDiagnostics ==
    (qpc = "returned" /\ \E c \in 1..Len(qaCalls) : qaCalls[c].raised) =>
        /\ IsReturn(result)
        /\ DOMAIN result.value = {"answer", "error", "evaluation"}
        /\ result.value.answer =
               "I apologize, but I encountered an error: " \o result.value.error
        /\ result.value.evaluation =
               [scores |-> [overall |-> 0],
                reasons |-> [error |-> <<result.value.error>>],
                method |-> "error"]

\* C5: after any sequence of add_message calls the history holds at most
\* MAX_HISTORY_LENGTH (20) messages, and they are the most recently appended
\* ones in their order of appending: all of them while there are at most 20,
\* exactly the last 20 afterwards.
C5_HistoryIsTheLastTwenty ==
    /\ Len(messages) <= 20
    /\ Len(messages) = Min(20, Len(appended))
    /\ \A j \in 1..Len(messages) :
         messages[j] = appended[Len(appended) - Len(messages) + j]

C5_Witness ==
    /\ Len(appended) > MAX_HISTORY_LENGTH
    /\ Len(messages) = MAX_HISTORY_LENGTH
    /\ messages[1] # appended[1]

\* Number of calls of the current generate_response on the named collaborators.
CountCalls(names) ==
    Cardinality({c \in 1..Len(qaCalls) : qaCalls[c].call \in names})

\* generate_response has returned for a valid (non-empty string) query.
ValidQueryDone == qpc = "returned" /\ ~InvalidQuery(query)

\* What it returned is a success-result: an evaluation that is not the
\* handler's.
SuccessResult ==
    /\ IsReturn(result)
    /\ "evaluation" \in DOMAIN result.value
    /\ result.value.evaluation.method # "error"

\* C11: if the retriever raises during the retrieve stage of a valid query,
\* generate_response returns an error-result (evaluation.method = "error")
\* for that query; the exception is not turned into an empty retrieval
\* followed by a success-result.
C11_RetrieverExceptionGivesErrorResult ==
    (ValidQueryDone /\ Len(qaCalls) > 0 /\ qaCalls[1] = Call("retriever", TRUE)) =>
        /\ IsReturn(result)
        /\ result.value.evaluation.method = "error"
        /\ ~SuccessResult

\* C12: for a valid query generate_response invokes the generative model at
\* most once, exactly once when it returns a success-result, and makes no
\* further call on the chain after a failed model call (no retry).
C12_ModelInvokedAtMostOnce ==
    /\ CountCalls({"llm"}) <= 1
    /\ (ValidQueryDone /\ SuccessResult) => CountCalls({"llm"}) = 1
    /\ \A c \in 1..Len(qaCalls) :
         qaCalls[c] = Call("llm", TRUE) => c = Len(qaCalls)
    /\ (\E c \in 1..Len(qaCalls) : qaCalls[c] = Call("llm", TRUE)) =>
           (qpc = "returned" /\ ~SuccessResult)

C12_Witness ==
    /\ ValidQueryDone
    /\ \E c \in 1..Len(qaCalls) : qaCalls[c] = Call("llm", TRUE)
    /\ IsReturn(result)
    /\ result.value.error = "Connection error."

\* C13: processing one valid query performs exactly one retrieval against
\* the index (hence at most one query-embedding call), one generation-model
\* call at most, and at most one evaluation call.
C13_OneRetrievalPerQuery ==
    ValidQueryDone =>
        /\ CountCalls({"retriever", "chain.retriever"}) = 1
        /\ CountCalls({"llm"}) <= 1
        /\ CountCalls({"evaluator"}) <= 1

\* The heuristic part (scores, reasons, method) of a returned evaluation.
HeuristicPart(e) == [scores |-> e.scores, reasons |-> e.reasons, method |-> e.method]

\* The failure of the model strategy in the current call: the exception of
\* the model call or of the parsing of its reply, None if there was none.
ModelFailure ==
    IF IsRaise(eval_response) THEN eval_response
    ELSE IF IsReturn(eval_response) /\ _parse_evaluation(eval_response.value).raised
         THEN _parse_evaluation(eval_response.value)
         ELSE None

\* C14: with the model-based evaluator selected, when the model call or the
\* parsing of its reply raises, evaluate_response does not raise: it returns
\* the heuristic evaluation of the same (query, response, context), with
\* method = "heuristic" and the failure text in an 'error' field.
C14_ModelFailureFallsBackToHeuristic ==
    (use_model /\ epc = "returned" /\ ModelFailure # None) =>
        /\ IsReturn(evaluation)
        /\ evaluation.value.method = "heuristic"
        /\ DOMAIN evaluation.value = {"scores", "reasons", "method", "error"}
        /\ evaluation.value.error = ModelFailure.exc
        /\ HeuristicPart(evaluation.value) \in
               _evaluate_heuristic(eval_args.query, eval_args.response, eval_args.context)

C14_Witness ==
    /\ use_model
    /\ epc = "returned"
    /\ eval_response = Raise("Connection error.")
    /\ IsReturn(evaluation)
    /\ evaluation.value.error = "Connection error."
    /\ eval_args.response = ResponseSentence

\* C15: with the model-based evaluator selected, when the secondary model
\* replies in exactly the requested line format, evaluate_response returns
\* method = "model" with the five parsed scores and, for each of the four
\* metrics, the reason of the Reason line that follows the metric's line.
C15_ExactFormatIsParsed ==
    (use_model /\ epc = "returned" /\ eval_response = Return(ExactFormatReply)) =>
        /\ IsReturn(evaluation)
        /\ evaluation.value.method = "model"
        /\ evaluation.value.scores =
               [relevance |-> Frac(4, 1), completeness |-> Frac(3, 1),
                clarity |-> Frac(5, 1), accuracy |-> Frac(4, 1),
                overall |-> Frac(40, 10)]
        /\ evaluation.value.reasons =
               [relevance |-> << <<"r", "1">> >>, completeness |-> << <<"r", "2">> >>,
                clarity |-> << <<"r", "3">> >>, accuracy |-> << <<"r", "4">> >>]

\* C18: for every (query, answer, context) the heuristic evaluator returns
\* relevance, completeness, clarity and accuracy within [0, 5] and overall
\* equal to 0.3*relevance + 0.2*completeness + 0.2*clarity + 0.3*accuracy
\* rounded to 2 decimals, hence within [0, 5] too.
C18_HeuristicScoresBoundedAndWeighted ==
    (IsReturn(evaluation) /\ evaluation.value.method = "heuristic") =>
        LET s == evaluation.value.scores
            x == FracAdd(FracAdd(FracMul(Frac(3, 10), s.relevance),
                                 FracMul(Frac(2, 10), s.completeness)),
                         FracAdd(FracMul(Frac(2, 10), s.clarity),
                                 FracMul(Frac(3, 10), s.accuracy)))
        IN  /\ DOMAIN s = {"relevance", "completeness", "clarity", "accuracy", "overall"}
            /\ \A m \in DOMAIN s :
                 /\ s[m].d > 0
                 /\ 0 <= s[m].n
                 /\ s[m].n <= 5 * s[m].d
            /\ s.overall.d = 100
            \* |100 * x - overall in hundredths| <= 1/2
            /\ 2 * (100 * x.n - s.overall.n * x.d) <= x.d
            /\ 2 * (s.overall.n * x.d - 100 * x.n) <= x.d

C18_Witness ==
    /\ ~use_model
    /\ epc = "returned"
    /\ eval_args = [query |-> QuerySiapa, response |-> ResponseSentence,
                    context |-> ContextFaq]
    /\ evaluation.value.scores.relevance = Frac(5, 4)
    /\ evaluation.value.scores.accuracy = Frac(10, 7)
    /\ evaluation.value.scores.overall = Frac(240, 100)

\* C19: every evaluation evaluate_response hands to generate_response,
\* whichever strategy produced it, has method in {heuristic, model, error}
\* and every score it contains within [0, 5]; scores parsed from a model
\* reply included.
C19_EveryScoreWithinScale ==
    IsReturn(evaluation) =>
        /\ evaluation.value.method \in {"heuristic", "model", "error"}
        /\ \A m \in DOMAIN evaluation.value.scores :
             /\ 0 <= evaluation.value.scores[m].n
             /\ evaluation.value.scores[m].n <= 5 * evaluation.value.scores[m].d

\* C17: embed_query returns the first vector of the response and never a
\* zero vector; when it raises and the exception is not one that the body of
\* a 200 response causes (no "data", no first item), it is the ValueError of
\* _make_embedding_request: for an error status and for a transport error.
C17_EmbedQueryFailureIsValueError ==
    (embeddings = "CustomLocalEmbeddings" /\ probe # None) =>
        /\ IsReturn(probe) => probe.value = Vec("Test embedding", serverDim)
        /\ IsRaise(probe) =>
               probe.exc \in {"ValueError"} \cup
                   { embed_query(h).exc :
                       h \in { x \in HttpExchanges(<<"Test embedding">>, serverDim) :
                                   x.kind = "ok" /\ embed_query(x).raised } }

\* C16: VectorStore construction selects CustomLocalEmbeddings if and only
\* if both EMBEDDING_BASE_URL and EMBEDDING_API_KEY are set and its
\* construction succeeds; in every other case it ends with OpenAIEmbeddings,
\* and the construction of the VectorStore completes.
C16_ProviderSelection ==
    /\ mpc = "construct" => ENABLED VectorStore_init
    /\ pc # "unconstructed" =>
           /\ embeddings \in {"CustomLocalEmbeddings", "OpenAIEmbeddings"}
           /\ embeddings = "CustomLocalEmbeddings" <=>
                  (env.base_url /\ env.api_key /\ IsReturn(custom_init))
           /\ (~env.base_url \/ ~env.api_key \/ IsRaise(custom_init)) =>
                  embeddings = "OpenAIEmbeddings"

C16_Witness ==
    /\ pc = "constructed"
    /\ env = [base_url |-> TRUE, api_key |-> TRUE]
    /\ IsReturn(custom_init)
    /\ embeddings = "CustomLocalEmbeddings"

\* FAQ loading succeeded with both required columns present.
FaqLoaded ==
    /\ faq # Unset
    /\ faq # None
    /\ {"question", "answer"} \subseteq faq.columns

\* C20: in main(), no user query is processed (generate_response is not
\* invoked) unless FAQ loading succeeded with both required columns present
\* and initialize returned True; after a failed load or a False initialize
\* the run stops, with an st.error message shown to the operator.
C20_NoServingAfterFatalStartup ==
    /\ (cpc = "generating" \/ Len(appended) > 0 \/ mpc \in {"input", "done"}) =>
           (FaqLoaded /\ initResult = Return(TRUE))
    /\ faq = None =>
           /\ mpc \in {"start", "initialize_vector_store", "check_store", "stopped"}
           /\ LoadFailedMessage \in st_errors
    /\ initResult = Return(FALSE) =>
           /\ mpc \in {"start", "initialize", "initialize_vector_store",
                        "check_store", "stopped"}
           /\ mpc # "initialize" => InitFailedMessage \in st_errors
    /\ mpc = "check_store" => ENABLED main_check_store

C20_Witness ==
    /\ mpc = "stopped"
    /\ initResult = Return(FALSE)
    /\ vectorstore # None
    /\ InitFailedMessage \in st_errors
    /\ runs > 1

\* A row of the file whose question and answer fields both hold text.
BothFieldsPresent(row) == row.question # "" /\ row.answer # ""

\* C21: load_faq_data returns None when the 'question' or the 'answer'
\* column is absent; otherwise every row of the returned table has a
\* non-empty question and answer, every row of the file with either field
\* missing is dropped, and every row with both fields present is kept, in
\* the order of the file.
C21_LoadKeepsExactlyTheCompleteRows ==
    faq # Unset =>
        IF ~csv_file.readable \/ ~(required_columns \subseteq csv_file.columns)
        THEN faq = None
        ELSE /\ faq # None
             /\ \A k \in 1..Len(faq.rows) :
                   /\ faq.rows[k].question \notin {NaN, PyStr("")}
                   /\ faq.rows[k].answer \notin {NaN, PyStr("")}
             /\ LET present == SelectSeq(csv_file.rows, BothFieldsPresent)
                IN  /\ Len(faq.rows) = Len(present)
                    /\ \A k \in 1..Len(present) :
                          /\ faq.rows[k].id = present[k].id
                          /\ faq.rows[k].question = PyStr(present[k].question)
                          /\ faq.rows[k].answer = PyStr(present[k].answer)

\* C22: create_documents_from_faqs gives exactly one document per row of
\* the table, in the order of the rows, document i being "Q: <question_i>",
\* a newline, "A: <answer_i>"; no row is dropped or duplicated.
C22_OneDocumentPerRowInOrder ==
    (FaqLoaded /\ mpc # "initialize_vector_store") =>
        /\ Len(documents) = Len(faq.rows)
        /\ \A k \in 1..Len(faq.rows) :
              documents[k] = "Q: " \o faq.rows[k].question.value
                             \o "\nA: " \o faq.rows[k].answer.value

C22_Witness ==
    /\ FaqLoaded
    /\ mpc = "construct"
    /\ Len(csv_file.rows) = 4
    /\ documents = << "Q: q2\nA: a2", "Q: q4\nA: a4" >>

\* C23: for n texts embed_documents issues exactly ceil(n/3) requests (none
\* for n = 0); request c carries the at most 3 consecutive texts that follow
\* the first 3(c-1), in input order; and a chunk whose request failed is
\* followed by the requests of the later chunks all the same.
C23_ChunkedRequests ==
    embeddings = "CustomLocalEmbeddings" =>
        /\ \A c \in 1..Len(requests) :
              /\ Len(requests[c]) >= 1
              /\ Len(requests[c]) <= 3
              /\ Len(requests[c]) = Min(3, Len(documents) - 3 * (c - 1))
              /\ \A j \in 1..Len(requests[c]) :
                    requests[c][j] = documents[3 * (c - 1) + j]
        /\ Len(requests) = Len(outcomes)
        /\ EmbedDocumentsDone =>
              /\ 3 * Len(requests) >= Len(documents)
              /\ 3 * Len(requests) < Len(documents) + 3
              /\ Len(documents) = 0 => requests = <<>>

C23_Witness ==
    /\ EmbedDocumentsDone
    /\ Len(documents) = 7
    /\ Len(requests) = 3
    /\ outcomes[1] = "request_failed"
    /\ outcomes[2] = "malformed"
    /\ outcomes[3] = "ok"
    /\ requests[3] = <<documents[7]>>

\* The flag is set and is "true" up to the case of its letters.
FlagIsTrue(flag) ==
    /\ flag # None
    /\ Len(flag.value) = 4
    /\ flag.value[1] \in {"t", "T"}
    /\ flag.value[2] \in {"r", "R"}
    /\ flag.value[3] \in {"u", "U"}
    /\ flag.value[4] \in {"e", "E"}

\* C24: the strategy of the evaluator is fixed at construction: use_model is
\* true exactly when USE_MODEL_EVALUATOR equals "true" up to case and the
\* evaluation model was built; no evaluate_response call changes it, so
\* every call of a model evaluator attempts the model, also the call after
\* one that fell back to the heuristic, and no call of a heuristic evaluator
\* does.
C24_StrategyFixedAtConstruction ==
    /\ use_model = (FlagIsTrue(eval_env.USE_MODEL_EVALUATOR)
                    /\ eval_env.ChatOpenAI = "constructed")
    /\ FlagIsTrue(eval_env.USE_MODEL_EVALUATOR) <=> eval_env.ChatOpenAI # "not_called"
    /\ \A k \in 1..Len(eval_log) :
          IF use_model THEN eval_log[k] \in {"model", "fallback"}
          ELSE eval_log[k] = "heuristic"
    /\ epc \in {"invoke", "parse"} => use_model

C24_Witness ==
    /\ eval_env.USE_MODEL_EVALUATOR = PyStr(<<"T", "r", "u", "E">>)
    /\ eval_log = <<"fallback">>
    /\ epc = "parse"
    /\ IsReturn(eval_response)
    /\ use_model

\* C25: no step of generate_response, on the success path, the error path
\* or the short-circuit for invalid input, changes the contents of the
\* index, the retriever (and so the chain built on it) or the mode of the
\* evaluator; and a query starts from nothing that an earlier query left
\* behind, so an earlier failed or invalid query cannot change its outcome.
C25_QueriesAreIndependent ==
    [][ /\ UNCHANGED <<vectorstore, documents, all_embeddings, embeddings,
                       serverDim, retriever, use_model, eval_env>>
        /\ (qpc \in {"idle", "returned"} /\ qpc' = "retrieve") =>
               /\ result' = None
               /\ qaCalls' = <<>>
               /\ retrieved_docs' = <<>>
               /\ retrieved_context' = ""
               /\ answer' = ""
               /\ response' = None ]_vars

C25_Witness ==
    /\ previous \in {"invalid", "error"}
    /\ qpc = "returned"
    /\ SuccessResult
    /\ Len(result.value.context) = TOP_K
    /\ retriever = RetrieverOf(vectorstore)

\* C26: every call of process_user_input appends first the user message and
\* then exactly one assistant message, on every path: also when the
\* generator raises, where process_user_input itself does not raise and the
\* assistant message is the "Error generating response: ..." text.  So
\* between calls the messages ever appended alternate user, assistant, and
\* no call has ended with an exception.
C26_OneAssistantMessagePerCall ==
    cpc = "idle" =>
        /\ ~IsRaise(chatOutcome)
        /\ Len(appended) % 2 = 0
        /\ \A k \in 1..Len(appended) :
              appended[k].role = IF k % 2 = 1 THEN "user" ELSE "assistant"

\* C27: in every success result, the context string handed to the evaluator
\* is _format_docs_for_evaluation of the very documents, in the same order,
\* that the generative model was given as its context: "Document 1" to
\* "Document n", and the empty string when nothing was retrieved.
C27_EvaluatorContextIsTheModelContext ==
    (ValidQueryDone /\ SuccessResult) =>
        /\ result.value.evaluation.context
               = _format_docs_for_evaluation(result.value.context)
        /\ result.value.context = <<>> => result.value.evaluation.context = ""

====
